---- MODULE Spec2Model ----
(***************************************************************************)
(* Model of streamlit_app.py: the timetable grid parser                    *)
(* (parse_sheet_to_events), the iCalendar writer (events_to_ics) and the   *)
(* text escaping rule (escape_ical_text).                                  *)
(*                                                                         *)
(* A cell of the grid is a record [k, s, d, m]:                            *)
(*   k = "empty"  a NaN / None cell                                        *)
(*   k = "text"   a string cell, s is the text                             *)
(*   k = "dt"     a native datetime / Timestamp, d the day, m the minute   *)
(*   k = "time"   a native datetime.time, m the minute of the day          *)
(* Days are small integers, clock times are minutes since midnight.        *)
(***************************************************************************)
EXTENDS Integers, Sequences, FiniteSets, TLC

VARIABLES nrows, ncols, grid, ranges, markerDate,
          pc, hi, raw_events, origin, accessed, events,
          ics_in, ei, body,
          text, escaped

vars == <<nrows, ncols, grid, ranges, markerDate, pc, hi, raw_events, origin,
          accessed, events, ics_in, ei, body, text, escaped>>

parseVars == <<nrows, ncols, grid, ranges, markerDate, pc, hi, raw_events,
               origin, accessed, events>>

(* ---------------- bounds of the explored inputs ---------------- *)
MaxRows == 7
MaxCols == 4
MaxLen == 4
MaxEvents == 2

(* ---------------- cell values ---------------- *)
NoDate == -1
NoTime == -1
Today == 0

Empty == [k |-> "empty", s |-> "", d |-> NoDate, m |-> NoTime]
T(str) == [k |-> "text", s |-> str, d |-> NoDate, m |-> NoTime]
DT(day) == [k |-> "dt", s |-> "", d |-> day, m |-> 0]
TM(min) == [k |-> "time", s |-> "", d |-> NoDate, m |-> min]

\* str(x) of a native datetime / time value
DateStr(day) == IF day = 1 THEN "2026-01-05 00:00:00" ELSE "2026-01-06 00:00:00"
ClockStr(min) == IF min = 480 THEN "08:00:00" ELSE "10:00:00"

\* str(x)
Str(v) ==
    CASE v.k = "text" -> v.s
      [] v.k = "dt" -> DateStr(v.d)
      [] v.k = "time" -> ClockStr(v.m)
      [] OTHER -> "nan"

\* s.strip() on the texts of the model: the only text with surrounding
\* white space is the blank one
Strip(s) == IF s = " " THEN "" ELSE s

\* pd.isna(x) or x is None
IsNa(v) == v.k = "empty"

(* ---------------- Utilities ---------------- *)

\* The match of r'^\d{1,2}[:hH]\d{2}(\s*[AaPp][Mm]\.?)*$' on the texts of
\* the model: <<hour, minute>> as written, <<>> when the text does not match.
ClockDigits(s) ==
    CASE s = "8:00" -> <<8, 0>>
      [] s = "08:00" -> <<8, 0>>
      [] s = "10:00" -> <<10, 0>>
      [] s = "25:00" -> <<25, 0>>
      [] OTHER -> <<>>

\* is_time_like on a string
IsTimeLikeStr(s) == Strip(s) # "" /\ ClockDigits(Strip(s)) # <<>>

\* is_time_like(x)
IsTimeLike(v) ==
    CASE v.k = "empty" -> FALSE
      [] v.k \in {"dt", "time"} -> TRUE
      [] OTHER -> IsTimeLikeStr(v.s)

\* to_time(x): dateutil rejects an hour above 23 or a minute above 59
ToTime(v) ==
    CASE v.k = "empty" -> NoTime
      [] v.k \in {"dt", "time"} -> v.m
      [] OTHER ->
           LET hm == ClockDigits(Strip(v.s))
           IN IF hm # <<>> /\ hm[1] <= 23 /\ hm[2] <= 59
              THEN hm[1] * 60 + hm[2] ELSE NoTime

\* the digits captured by r'G\s*\.?\s*(\d+)' or r'^(?:groupe)?\s*(\d+)$'
\* (case-insensitive), 0 when neither pattern matches
GroupDigits(s) ==
    CASE s \in {"G1", "G 1", "g.1"} -> 1
      [] s \in {"Groupe 2", "G 2", "2"} -> 2
      [] s \in {"G3", "G 3"} -> 3
      [] OTHER -> 0

GroupName(n) == CASE n = 1 -> "G 1" [] n = 2 -> "G 2" [] OTHER -> "G 3"

\* dtparser.parse(s, dayfirst=True, fuzzy=True).date() on a string: a text
\* that only holds a clock time resolves to the current day, a lone day
\* number to that day of the current month, a text without any date token
\* fails.  The outcome for a marker text ("H1": a unit letter followed by a
\* number) depends on the parser and is the input markerDate.
ThisMonth(n) == 100 + n

ToDateStr(s) ==
    CASE s = "" -> NoDate
      [] s = "2026-01-05 00:00:00" -> 1
      [] s = "2026-01-06 00:00:00" -> 2
      [] s \in {"08:00:00", "10:00:00", "8:00", "08:00", "10:00"} -> Today
      [] GroupDigits(s) # 0 -> ThisMonth(GroupDigits(s))
      [] s \in {"H1", "S1"} -> markerDate
      [] OTHER -> NoDate

\* to_date(x)
ToDate(v) ==
    CASE v.k = "empty" -> NoDate
      [] v.k = "dt" -> v.d
      [] OTHER -> ToDateStr(Strip(Str(v)))

\* normalize_group_label(x); None is modelled as the empty string (the
\* callers only test the result for truth)
normalize_group_label(v) ==
    IF v.k = "empty" THEN ""
    ELSE LET s == Strip(Str(v))
         IN IF s = "" THEN ""
            ELSE IF GroupDigits(s) # 0 THEN GroupName(GroupDigits(s))
            ELSE s

\* Python's order on the strings of the model (code point order)
StrOrder == << "08:00", "08:00:00", "10:00", "10:00:00", "2", "2026-01-05 00:00:00",
               "2026-01-06 00:00:00", "25:00", "8:00", "Dupont", "G 1", "G 2",
               "G 3", "G1", "G3", "Groupe 2", "H1", "Martin", "Math", "Phys",
               "S1", "Salle", "g.1" >>

Rank(s) == CHOOSE i \in 1..Len(StrOrder) : StrOrder[i] = s

RECURSIVE SortedList(_)
\* sorted(list(S)) for a set of strings
SortedList(S) ==
    IF S = {} THEN <<>>
    ELSE LET lo == CHOOSE x \in S : \A y \in S : Rank(x) <= Rank(y)
         IN <<lo>> \o SortedList(S \ {lo})

RECURSIVE SeqLess(_, _)
\* the order of two joined description texts, fragment by fragment
SeqLess(a, b) ==
    IF a = <<>> THEN b # <<>>
    ELSE IF b = <<>> THEN FALSE
    ELSE IF Head(a) = Head(b) THEN SeqLess(Tail(a), Tail(b))
    ELSE Rank(Head(a)) < Rank(Head(b))

RECURSIVE SortedSeqs(_)
SortedSeqs(S) ==
    IF S = {} THEN <<>>
    ELSE LET lo == CHOOSE x \in S : \A y \in S : x = y \/ SeqLess(x, y)
         IN <<lo>> \o SortedSeqs(S \ {lo})

Min(S) == CHOOSE x \in S : \A y \in S : x <= y
Max(S) == CHOOSE x \in S : \A y \in S : x >= y

(* ---------------- Helpers Fusion ---------------- *)

\* a merged range of the sheet is <<min_row, min_col, max_row, max_col>>,
\* 1-based as openpyxl reports it
Covers(rg, r, c) == rg[1] - 1 <= r /\ r <= rg[3] - 1 /\ rg[2] - 1 <= c /\ c <= rg[4] - 1

\* get_merged_map: {(row0, col0): (r1, c1, r2, c2)}, 0-based
get_merged_map ==
    [cell \in {rc \in (0..MaxRows) \X (0..MaxCols) :
                   \E rg \in ranges : Covers(rg, rc[1], rc[2])} |->
        LET rg == CHOOSE x \in ranges : Covers(x, cell[1], cell[2])
        IN <<rg[1] - 1, rg[2] - 1, rg[3] - 1, rg[4] - 1>>]

(* ---------------- Parsing ---------------- *)

InGrid(r, c) == r >= 0 /\ r < nrows /\ c >= 0 /\ c < ncols

\* df.iat[r, c]; a read outside the frame raises IndexError, which the
\* actions record through the set of accessed cells
Cell(r, c) == IF InGrid(r, c) THEN grid[<<r, c>>] ELSE Empty

\* the i-th smallest element of a set of integers
Nth(S, i) == CHOOSE x \in S : Cardinality({y \in S : y < x}) = i - 1

Ascending(S) == [i \in 1..Cardinality(S) |-> Nth(S, i)]

IsWeekText(v) == v.k = "text" /\ Strip(v.s) = "S1"
IsSlotText(v) == v.k = "text" /\ Strip(v.s) = "H1"

find_week_rows == {i \in 0..(nrows - 1) : IsWeekText(Cell(i, 0))}
find_slot_rows == {i \in 0..(nrows - 1) : IsSlotText(Cell(i, 0))}

s_rows == find_week_rows
h_rows == Ascending(find_slot_rows)

\* lookahead windows of the extraction loop
TeacherFrom == 2
TeacherTo == 5
StopLookahead == 11
StopFallback == 7
TimeLookahead == 12

Instant(d, t) == d * 1440 + t

\* the scans without their break at the end of the frame
ScanRowsNoBreak(r, n) == (r + 1)..(r + n)

\* rows r+1 .. r+n that lie inside the frame (the scans break at nrows)
ScanRows(r, n) == {idx \in (r + 1)..(r + n) : idx < nrows}

IsTeacherCell(v) ==
    LET s == Strip(Str(v))
    IN ~IsNa(v) /\ s # "" /\ ~IsTimeLikeStr(s) /\ ToDateStr(s) = NoDate

TeacherRows(r) ==
    IF r + 2 < nrows
    THEN {idx \in (r + TeacherFrom)..(r + TeacherTo) : idx < nrows}
    ELSE {}

Teachers(r, col) ==
    {Strip(Str(Cell(idx, col))) : idx \in {i \in TeacherRows(r) : IsTeacherCell(Cell(i, col))}}

StopHits(r, col) == {idx \in ScanRows(r, StopLookahead) : IsTimeLike(Cell(idx, col))}

StopIdx(r, col) ==
    IF StopHits(r, col) # {} THEN Min(StopHits(r, col))
    ELSE Min({r + StopFallback, nrows})

IsDescCell(v, teachers, summary_str) ==
    LET s == Strip(Str(v))
    IN ~IsNa(v) /\ s # "" /\ ToDate(v) = NoDate /\ s \notin teachers /\ s # summary_str

\* desc_parts after dict.fromkeys: first occurrences, in row order
DescParts(r, col) ==
    LET summary_str == Strip(Str(Cell(r, col)))
        rows == {idx \in (r + 1)..(StopIdx(r, col) - 1) :
                    idx < nrows /\ IsDescCell(Cell(idx, col), Teachers(r, col), summary_str)}
        first == {idx \in rows : \A j \in rows :
                    j < idx => Strip(Str(Cell(j, col))) # Strip(Str(Cell(idx, col)))}
    IN [i \in 1..Cardinality(first) |-> Strip(Str(Cell(Nth(first, i), col)))]

TimeRows(r, col) == {idx \in ScanRows(r, TimeLookahead) : IsTimeLike(Cell(idx, col))}

\* rows of the cells the scan takes as start_val and end_val, -1 for None
StartRow(r, col) == IF TimeRows(r, col) = {} THEN -1 ELSE Min(TimeRows(r, col))

EndRows(r, col) ==
    {idx \in TimeRows(r, col) :
        idx > StartRow(r, col) /\ Cell(idx, col) # Cell(StartRow(r, col), col)}

EndRow(r, col) == IF EndRows(r, col) = {} THEN -1 ELSE Min(EndRows(r, col))

Groups(r, p, c, col) ==
    LET group_row == p + 2
        gl == normalize_group_label(IF group_row < nrows THEN Cell(group_row, col) ELSE Empty)
        gl_next == normalize_group_label(IF col + 1 < ncols THEN Cell(group_row, col + 1) ELSE Empty)
        merged_map == get_merged_map
        own == IF gl # "" THEN {gl} ELSE {}
        next == IF gl_next # "" THEN {gl_next} ELSE {}
    IN IF col = c
       THEN IF <<r, col>> \in DOMAIN merged_map /\ <<r, col + 1>> \in DOMAIN merged_map
            THEN own \cup next
            ELSE own
       ELSE own

\* how far one pass of the sub-column body gets:
\*   0 col outside the frame, 1 no title, 2 no time pair, 3 no date,
\*   4 a candidate is appended
Stage(r, p, c, col) ==
    IF col >= ncols THEN 0
    ELSE IF IsNa(Cell(r, col)) \/ Strip(Str(Cell(r, col))) = "" THEN 1
    ELSE IF StartRow(r, col) = -1 \/ EndRow(r, col) = -1 THEN 2
    ELSE IF ToTime(Cell(StartRow(r, col), col)) = NoTime
            \/ ToTime(Cell(EndRow(r, col), col)) = NoTime THEN 2
    ELSE IF ToDate(Cell(p + 1, c)) = NoDate THEN 3
    ELSE 4

\* the cells one pass of the sub-column body reads with df.iat
SubColumnReads(r, p, c, col) ==
    LET st == Stage(r, p, c, col)
        scans == {<<idx, col>> : idx \in TeacherRows(r)}
                 \cup {<<idx, col>> : idx \in
                         IF StopHits(r, col) # {}
                         THEN {i \in ScanRows(r, StopLookahead) : i <= StopIdx(r, col)}
                         ELSE ScanRows(r, StopLookahead)}
                 \cup {<<idx, col>> : idx \in {i \in (r + 1)..(StopIdx(r, col) - 1) : i < nrows}}
                 \cup {<<idx, col>> : idx \in
                         IF EndRow(r, col) # -1
                         THEN {i \in ScanRows(r, TimeLookahead) : i <= EndRow(r, col)}
                         ELSE ScanRows(r, TimeLookahead)}
        grp == (IF p + 2 < nrows THEN {<<p + 2, col>>} ELSE {})
               \cup (IF col + 1 < ncols THEN {<<p + 2, col + 1>>, <<r, col + 1>>} ELSE {})
    IN (IF st >= 1 THEN {<<r, col>>} ELSE {})
       \cup (IF st >= 2 THEN scans ELSE {})
       \cup (IF st >= 3 THEN {<<p + 1, c>>} ELSE {})
       \cup (IF st >= 4 THEN grp ELSE {})

\* the dict appended to raw_events
Candidate(r, p, c, col) ==
    LET d == ToDate(Cell(p + 1, c))
        desc_text == DescParts(r, col)
    IN [summary |-> Strip(Str(Cell(r, col))),
        teachers |-> Teachers(r, col),
        descriptions |-> IF desc_text # <<>> THEN {desc_text} ELSE {},
        start |-> Instant(d, ToTime(Cell(StartRow(r, col), col))),
        end |-> Instant(d, ToTime(Cell(EndRow(r, col), col))),
        groups |-> Groups(r, p, c, col)]

\* date_cols of a slot row governed by week row p
DateCols(p) == {c \in 0..(ncols - 1) : p + 1 < nrows /\ ToDate(Cell(p + 1, c)) # NoDate}

\* the passes of "for c in date_cols: for col in (c, c + 1)", in order
Passes(p) ==
    [i \in 1..(2 * Cardinality(DateCols(p))) |->
        LET c == Nth(DateCols(p), (i + 1) \div 2)
        IN <<c, c + ((i + 1) % 2)>>]

RECURSIVE RowCandidates(_, _, _)
RowCandidates(r, p, i) ==
    IF i > Len(Passes(p)) THEN <<>>
    ELSE LET c == Passes(p)[i][1]
             col == Passes(p)[i][2]
         IN (IF Stage(r, p, c, col) = 4 THEN <<Candidate(r, p, c, col)>> ELSE <<>>)
            \o RowCandidates(r, p, i + 1)

RECURSIVE RowOrigins(_, _, _)
RowOrigins(r, p, i) ==
    IF i > Len(Passes(p)) THEN <<>>
    ELSE LET c == Passes(p)[i][1]
             col == Passes(p)[i][2]
         IN (IF Stage(r, p, c, col) = 4 THEN <<[row |-> r, week |-> p, anchor |-> c, col |-> col]>> ELSE <<>>)
            \o RowOrigins(r, p, i + 1)

RowReads(r, p) ==
    (IF p + 1 < nrows THEN {<<p + 1, c>> : c \in 0..(ncols - 1)} ELSE {})
    \cup UNION {SubColumnReads(r, p, Passes(p)[i][1], Passes(p)[i][2]) : i \in 1..Len(Passes(p))}

PCandidates(r) == {s \in s_rows : s <= r}

\* the first week row instead of the last one at or before r
GoverningWeekFirst(r) == Min(PCandidates(r))

\* p = max(p_candidates)
GoverningWeek(r) == Max(PCandidates(r))

MergeKey(e) == <<e.summary, e.start, e.end>>

RECURSIVE Fuse(_, _)
\* the loop "for e in raw_events" over the dict merged, kept as the
\* sequence of its values in insertion order
Fuse(raw, acc) ==
    IF raw = <<>> THEN acc
    ELSE LET e == Head(raw)
             hit == {i \in 1..Len(acc) : MergeKey(acc[i]) = MergeKey(e)}
             base == IF hit = {}
                     THEN Append(acc, [summary |-> e.summary, teachers |-> {},
                                       descriptions |-> {}, start |-> e.start,
                                       end |-> e.end, groups |-> {}])
                     ELSE acc
             k == IF hit = {} THEN Len(base) ELSE CHOOSE i \in hit : TRUE
         IN Fuse(Tail(raw),
                 [base EXCEPT ![k].teachers = @ \cup e.teachers,
                              ![k].descriptions = @ \cup e.descriptions,
                              ![k].groups = @ \cup e.groups])

RECURSIVE Flatten(_)
Flatten(ss) == IF ss = <<>> THEN <<>> ELSE Head(ss) \o Flatten(Tail(ss))

\* the list returned by parse_sheet_to_events; a description is the
\* sequence of its fragments, which stands for their join by " | "
Returned(acc) ==
    [i \in 1..Len(acc) |->
        [summary |-> acc[i].summary,
         teachers |-> SortedList(acc[i].teachers),
         description |-> Flatten(SortedSeqs(acc[i].descriptions)),
         start |-> acc[i].start,
         end |-> acc[i].end,
         groups |-> SortedList(acc[i].groups)]]

OutOfFrame(cells) == \E rc \in cells : ~InGrid(rc[1], rc[2])

\* lines 119-136: the frame is read, the marker rows are located
Locate ==
    /\ pc = "start"
    /\ LET reads == {<<i, 0>> : i \in 0..(nrows - 1)}
       IN /\ accessed' = reads
          /\ pc' = IF OutOfFrame(reads) THEN "raised" ELSE "extract"
    /\ hi' = 1
    /\ UNCHANGED <<nrows, ncols, grid, ranges, markerDate, raw_events, origin, events>>
    /\ UNCHANGED <<ics_in, ei, body, text, escaped>>

\* one pass of "for r in h_rows" without a governing week row
SkipSlotRow ==
    /\ pc = "extract"
    /\ hi <= Len(h_rows)
    /\ PCandidates(h_rows[hi]) = {}
    /\ hi' = hi + 1
    /\ UNCHANGED <<nrows, ncols, grid, ranges, markerDate, pc, raw_events, origin,
                   accessed, events>>
    /\ UNCHANGED <<ics_in, ei, body, text, escaped>>

\* one pass of "for r in h_rows" with a governing week row: every
\* DayAnchor and both sub-columns
ExtractSlotRow ==
    /\ pc = "extract"
    /\ hi <= Len(h_rows)
    /\ PCandidates(h_rows[hi]) # {}
    /\ LET r == h_rows[hi]
           p == GoverningWeek(r)
           reads == RowReads(r, p)
       IN /\ accessed' = accessed \cup reads
          /\ IF OutOfFrame(reads)
             THEN pc' = "raised" /\ UNCHANGED <<raw_events, origin>>
             ELSE /\ pc' = pc
                  /\ raw_events' = raw_events \o RowCandidates(r, p, 1)
                  /\ origin' = origin \o RowOrigins(r, p, 1)
    /\ hi' = hi + 1
    /\ UNCHANGED <<nrows, ncols, grid, ranges, markerDate, events>>
    /\ UNCHANGED <<ics_in, ei, body, text, escaped>>

\* lines 263-287: the candidates are fused and the list is returned
Fusion ==
    /\ pc = "extract"
    /\ hi > Len(h_rows)
    /\ events' = Returned(Fuse(raw_events, <<>>))
    /\ pc' = "done"
    /\ UNCHANGED <<nrows, ncols, grid, ranges, markerDate, hi, raw_events, origin, accessed>>
    /\ UNCHANGED <<ics_in, ei, body, text, escaped>>

(* ---------------- the explored sheets ---------------- *)

\* cells below a title cell, top to bottom
P_asc == <<T("8:00"), T("10:00"), T("Dupont")>>
P_desc == <<T("10:00"), T("8:00")>>
P_same == <<T("8:00"), T("08:00")>>
P_dup == <<T("8:00"), T("8:00"), T("10:00")>>
P_frag == <<T("Salle"), T("8:00"), T("10:00")>>
P_one == <<T("8:00")>>
P_bad == <<T("25:00"), T("10:00")>>
P_two == <<T("Math"), T("8:00"), T("10:00")>>
P_obj == <<TM(480), TM(600), T("Martin")>>

Marker(W, S, r) == IF r \in W THEN "S1" ELSE IF r \in S THEN "H1" ELSE ""

TextCell(str) == IF str = "" THEN Empty ELSE T(str)

\* A sheet of nr x nc cells: markers in column 0 (week rows W, slot rows S),
\* and from row b on, in the columns 1..Len(dates), a date row, a group row,
\* a title row and the cells below the titles.  A cell inside a merged range
\* other than its top-left cell is read as empty, as pandas reads it.
Build(nr, nc, W, S, b, dates, labels, titles, below, rngs) ==
    [rc \in (0..(nr - 1)) \X (0..(nc - 1)) |->
        LET r == rc[1]
            c == rc[2]
            raw == IF c = 0 THEN TextCell(Marker(W, S, r))
                   ELSE IF c > Len(dates) THEN Empty
                   ELSE IF r = b + 1 THEN (IF dates[c] = NoDate THEN Empty ELSE DT(dates[c]))
                   ELSE IF r = b + 2 THEN TextCell(labels[c])
                   ELSE IF r = b + 3 THEN TextCell(titles[c])
                   ELSE IF r > b + 3 /\ r - b - 3 <= Len(below[c]) THEN below[c][r - b - 3]
                   ELSE Empty
        IN IF \E rg \in rngs : Covers(rg, r, c) /\ <<r, c>> # <<rg[1] - 1, rg[2] - 1>>
           THEN Empty ELSE raw]

MarkerOnDateRow(W, S, nr) == \E w \in W : w + 1 < nr /\ (w + 1) \in (W \cup S)

LabelRows == { <<"G1", "Groupe 2", "G1">>, <<"G1", "G1", "Groupe 2">>, <<"", "G1", "">> }

RangeSets == { {}, {<<4, 2, 4, 3>>}, {<<4, 2, 5, 2>>, <<4, 3, 5, 3>>}, {<<4, 2, 5, 2>>} }

InitIdleIcs == ics_in = <<>> /\ ei = 0 /\ body = <<>>
InitIdleEscape == text = <<>> /\ escaped = <<>>

InitRun ==
    /\ pc = "start" /\ hi = 0 /\ raw_events = <<>> /\ origin = <<>>
    /\ accessed = {} /\ events = <<>>

\* sheets of full size with one week, varied in their contents
InitContents ==
    \E d2 \in {NoDate, 1, 2}, labels \in LabelRows,
       t2 \in {"", "Math", "Phys"}, t3 \in {"", "Math", " "},
       b1 \in {P_asc, P_desc, P_same, P_dup, P_frag, P_one, P_bad, P_two},
       same2 \in BOOLEAN, rngs \in RangeSets :
        /\ nrows = MaxRows
        /\ ncols = MaxCols
        /\ ranges = rngs
        /\ markerDate = NoDate
        /\ grid = Build(MaxRows, MaxCols, {0}, IF b1 = P_two THEN {3, 4} ELSE {3}, 0,
                        <<1, d2, NoDate>>, labels, <<"Math", t2, t3>>,
                        <<b1, IF same2 THEN b1 ELSE P_asc, b1>>, rngs)

\* a sheet whose cells outside column 0 all hold native datetimes: every
\* such cell is a date, a time of day and a non-empty text at once
BuildDense(nr, nc, W, S) ==
    [rc \in (0..(nr - 1)) \X (0..(nc - 1)) |->
        IF rc[2] = 0 THEN TextCell(Marker(W, S, rc[1]))
        ELSE DT(1 + ((rc[1] + rc[2]) % 2))]

\* sheets of every size, varied in their marker rows
InitShapes ==
    \E nr \in 0..MaxRows, nc \in 0..MaxCols, W \in SUBSET {0, 1}, b \in {0, 1},
       S1 \in {{}, {2}, {3}, {4}, {3, 4}}, fill \in {"first", "full", "dense"} :
      \E S0 \in SUBSET ({0, 1} \ W) :
        /\ (nr = 0) = (nc = 0)
        /\ nrows = nr
        /\ ncols = nc
        /\ ranges = {}
        /\ markerDate \in IF MarkerOnDateRow(W, S0 \cup S1, nr) THEN {NoDate, Today} ELSE {NoDate}
        /\ grid = IF fill = "dense" THEN BuildDense(nr, nc, W, S0 \cup S1)
                  ELSE Build(nr, nc, W, S0 \cup S1, b,
                             IF fill = "full" THEN <<1, 2, 1>> ELSE <<1, NoDate, NoDate>>,
                             <<"G1", "Groupe 2", "G3">>, <<"Math", "Math", "Math">>,
                             IF b = 0 THEN <<P_asc, P_asc, P_asc>> ELSE <<P_obj, P_obj, P_obj>>,
                             {})

Init == InitRun /\ (InitContents \/ InitShapes) /\ InitIdleIcs /\ InitIdleEscape

Next == Locate \/ SkipSlotRow \/ ExtractSlotRow \/ Fusion

Spec == Init /\ [][Next]_vars

(* ---------------- ICS writer ---------------- *)

\* A text handled by the writer is a sequence of characters; a literal of
\* the program that holds no special character is kept as one element.
BS == "\\"
NL == "\n"

RECURSIVE Replace(_, _, _)
\* str.replace(old, new) for a one-character old
Replace(s, old, new) ==
    IF s = <<>> THEN <<>>
    ELSE (IF Head(s) = old THEN new ELSE <<Head(s)>>) \o Replace(Tail(s), old, new)

\* the same replacements with the backslash escaped last
escape_backslash_last(s) ==
    Replace(Replace(Replace(Replace(s, NL, <<BS, "n">>), ",", <<BS, ",">>),
                    ";", <<BS, ";">>), BS, <<BS, BS>>)

escape_ical_text(s) ==
    Replace(Replace(Replace(Replace(s, BS, <<BS, BS>>), NL, <<BS, "n">>),
                    ",", <<BS, ",">>), ";", <<BS, ";">>)

RECURSIVE Join(_, _)
\* sep.join(parts)
Join(parts, sep) ==
    IF parts = <<>> THEN <<>>
    ELSE IF Len(parts) = 1 THEN parts[1]
    ELSE parts[1] \o <<sep>> \o Join(Tail(parts), sep)

\* desc_lines with the group line always in its plural form
DescLinesPlural(ev) ==
    (IF ev.description # <<>> THEN <<ev.description>> ELSE <<>>)
    \o (IF ev.teachers # <<>>
        THEN << <<"Enseignant(s): ">> \o Join(ev.teachers, " / ") >> ELSE <<>>)
    \o (IF ev.groups # <<>>
        THEN << <<"Groupes: ">> \o Join(ev.groups, " et ") >>
        ELSE <<>>)

\* desc_lines of one event
DescLines(ev) ==
    (IF ev.description # <<>> THEN <<ev.description>> ELSE <<>>)
    \o (IF ev.teachers # <<>>
        THEN << <<"Enseignant(s): ">> \o Join(ev.teachers, " / ") >> ELSE <<>>)
    \o (IF ev.groups # <<>>
        THEN IF Len(ev.groups) = 1
             THEN << <<"Groupe: ">> \o ev.groups[1] >>
             ELSE << <<"Groupes: ">> \o Join(ev.groups, " et ") >>
        ELSE <<>>)

\* the VEVENT block of one event (UID and DTSTAMP, which are fresh at every
\* call, are left out); a naive instant keeps its wall-clock value
VEvent(ev) ==
    [dtstart |-> ev.start,
     dtend |-> ev.end,
     summary |-> escape_ical_text(ev.summary),
     description |-> escape_ical_text(Join(DescLines(ev), NL))]

\* one pass of "for ev in events"
IcsEvent ==
    /\ pc = "ics"
    /\ ei <= Len(ics_in)
    /\ body' = Append(body, VEvent(ics_in[ei]))
    /\ ei' = ei + 1
    /\ UNCHANGED <<ics_in, text, escaped>>
    /\ UNCHANGED parseVars

\* the calendar text is returned
IcsReturn ==
    /\ pc = "ics"
    /\ ei > Len(ics_in)
    /\ pc' = "ics_done"
    /\ UNCHANGED <<nrows, ncols, grid, ranges, markerDate, hi, raw_events, origin,
                   accessed, events>>
    /\ UNCHANGED <<ics_in, ei, body, text, escaped>>

InitIdleParse ==
    /\ nrows = 0 /\ ncols = 0 /\ grid = <<>> /\ ranges = {} /\ markerDate = NoDate
    /\ hi = 0 /\ raw_events = <<>> /\ origin = <<>> /\ accessed = {} /\ events = <<>>

SeqsUpTo(S, n) == UNION {[1..k -> S] : k \in 0..n}

IcsTeachers == { <<>>, << <<"D">> >>, << <<"D">>, <<"M", ";">> >> }
IcsGroups == { <<>>, << <<"G 1">> >>, << <<"G 1">>, <<"G 2">> >>,
               << <<"G 1">>, <<"G 2">>, <<"G 3">> >> }

IcsEvents ==
    [summary : { <<"M", ",", "a">> }, teachers : IcsTeachers,
     description : { <<>>, <<"d", BS>> }, start : {1920}, end : {2040},
     groups : IcsGroups]

InitIcs ==
    /\ InitIdleParse /\ InitIdleEscape
    /\ pc = "ics"
    /\ ics_in \in SeqsUpTo(IcsEvents, MaxEvents)
    /\ ei = 1
    /\ body = <<>>

NextIcs == IcsEvent \/ IcsReturn

SpecIcs == InitIcs /\ [][NextIcs]_vars

(* ---------------- the escaping rule alone ---------------- *)

Alphabet == {BS, NL, ",", ";", "n", "a"}

Escape ==
    /\ pc = "escape"
    /\ escaped' = escape_ical_text(text)
    /\ pc' = "escaped"
    /\ UNCHANGED <<nrows, ncols, grid, ranges, markerDate, hi, raw_events, origin,
                   accessed, events>>
    /\ UNCHANGED <<ics_in, ei, body, text>>

InitEscape ==
    /\ InitIdleParse /\ InitIdleIcs
    /\ pc = "escape"
    /\ text \in SeqsUpTo(Alphabet, MaxLen)
    /\ escaped = <<>>

NextEscape == Escape

SpecEscape == InitEscape /\ [][NextEscape]_vars

(* ======================= properties ======================= *)

Range(f) == {f[i] : i \in DOMAIN f}

Cands == 1..Len(raw_events)

\* the two candidates come from the two sub-columns of one DayAnchor in one
\* slot row and agree on (title, start, end)
SiblingPair(i, j) ==
    /\ origin[i].row = origin[j].row
    /\ origin[i].anchor = origin[j].anchor
    /\ origin[i].col = origin[i].anchor
    /\ origin[j].col = origin[j].anchor + 1
    /\ MergeKey(raw_events[i]) = MergeKey(raw_events[j])

EventsOfKey(key) == {k \in 1..Len(events) : MergeKey(events[k]) = key}

\* C1: when both sub-columns of a DayAnchor yield candidates with the same
\* (title, start, end), the returned list holds exactly one event with that
\* (title, start, end) and its groups are the union of the two candidates'
\* groups.
C1_SiblingUnion ==
    pc = "done" =>
        \A i, j \in Cands :
            SiblingPair(i, j) =>
                /\ Cardinality(EventsOfKey(MergeKey(raw_events[i]))) = 1
                /\ \A k \in EventsOfKey(MergeKey(raw_events[i])) :
                       Range(events[k].groups)
                           = raw_events[i].groups \cup raw_events[j].groups

FullKey(i) == <<MergeKey(raw_events[i]), origin[i].row, origin[i].anchor>>

\* C2: candidates are fused only when they agree on (title, start, end,
\* slot row, DayAnchor): the returned list has one event per such key.
C2_FiveComponentKey ==
    pc = "done" => Len(events) = Cardinality({FullKey(i) : i \in Cands})

TitleEmpty(r, c) == IsNa(Cell(r, c)) \/ Strip(Str(Cell(r, c))) = ""

LabelAt(i, c) == normalize_group_label(Cell(origin[i].week + 2, c))

\* the case of the whole-class heuristic for candidate i
WholeClassCase(i) ==
    /\ origin[i].col = origin[i].anchor
    /\ origin[i].col + 1 < ncols
    /\ TitleEmpty(origin[i].row, origin[i].col + 1)
    /\ LabelAt(i, origin[i].col) # ""
    /\ LabelAt(i, origin[i].col + 1) # ""
    /\ LabelAt(i, origin[i].col) # LabelAt(i, origin[i].col + 1)

\* C3: a candidate of a primary sub-column whose sibling title is empty and
\* whose two group labels are present and differ carries both labels, with
\* or without merged-cell metadata, and the sibling yields no candidate.
C3_WholeClassHeuristic ==
    \A i \in Cands :
        WholeClassCase(i) =>
            /\ raw_events[i].groups
                   = {LabelAt(i, origin[i].col), LabelAt(i, origin[i].col + 1)}
            /\ \A j \in Cands :
                   ~(origin[j].row = origin[i].row /\ origin[j].anchor = origin[i].anchor
                     /\ origin[j].col = origin[i].col + 1)

\* C4: every candidate has a non-empty title and starts strictly before it
\* ends.
C4_TitleAndOrder ==
    \A i \in Cands : raw_events[i].summary # "" /\ raw_events[i].start < raw_events[i].end

WeeksUpTo(r) == {w \in 0..r : IsWeekText(Cell(w, 0))}

SlotRowsDone == {h_rows[k] : k \in 1..(IF hi - 1 < Len(h_rows) THEN hi - 1 ELSE Len(h_rows))}

\* C6: a candidate only comes from a slot row with a week row at or before
\* it; its date is read one row and its group labels two rows below the
\* largest such week row; a slot row without one yields nothing and the
\* other slot rows still yield their candidates.
C6_GoverningWeek ==
    /\ \A i \in Cands :
          LET r == origin[i].row
          IN /\ WeeksUpTo(r) # {}
             /\ origin[i].week = Max(WeeksUpTo(r))
             /\ raw_events[i].start \div 1440
                    = ToDate(Cell(Max(WeeksUpTo(r)) + 1, origin[i].anchor))
             /\ raw_events[i].groups \subseteq
                    {normalize_group_label(Cell(Max(WeeksUpTo(r)) + 2, origin[i].col)),
                     normalize_group_label(Cell(Max(WeeksUpTo(r)) + 2, origin[i].col + 1))}
    /\ pc \in {"extract", "done"} =>
          \A r \in SlotRowsDone :
              WeeksUpTo(r) # {} =>
                  Cardinality({i \in Cands : origin[i].row = r})
                      = Len(RowCandidates(r, Max(WeeksUpTo(r)), 1))

C6_Witness ==
    /\ pc = "done"
    /\ raw_events # <<>>
    /\ \E r \in Range(h_rows) : WeeksUpTo(r) = {}

RECURSIVE Unescape(_)
\* the escaping rule read backwards, left to right
Unescape(s) ==
    IF s = <<>> THEN <<>>
    ELSE IF Head(s) = BS /\ Len(s) >= 2
         THEN <<(IF s[2] = "n" THEN NL ELSE s[2])>> \o Unescape(Tail(Tail(s)))
         ELSE <<Head(s)>> \o Unescape(Tail(s))

\* C7: escaping is reversible: reading the escaped text backwards gives the
\* original text.
C7_EscapeRoundTrip ==
    pc = "escaped" => Unescape(escaped) = text

C7_Witness ==
    /\ pc = "escaped"
    /\ {BS, "n", NL} \subseteq Range(text)
    /\ Unescape(escaped) = text

RECURSIVE SplitLines(_, _)
\* text.split('\n'), cur being the line read so far
SplitLines(s, cur) ==
    IF s = <<>> THEN <<cur>>
    ELSE IF Head(s) = NL THEN <<cur>> \o SplitLines(Tail(s), <<>>)
    ELSE SplitLines(Tail(s), Append(cur, Head(s)))

LinesOf(k) ==
    IF body[k].description = <<>> THEN <<>>
    ELSE SplitLines(Unescape(body[k].description), <<>>)

Flag(b) == IF b THEN 1 ELSE 0

\* C8: one VEVENT per event in input order; its description holds, in this
\* order, the description when there is one, the teacher line when there are
\* teachers, and the group line when there are groups: singular with the one
\* label, plural with every label joined by the conjunction.
C8_DescriptionLines ==
    /\ Len(body) = ei - 1
    /\ pc = "ics_done" => Len(body) = Len(ics_in)
    /\ \A k \in 1..Len(body) :
          LET ev == ics_in[k]
              lines == LinesOf(k)
              hasD == ev.description # <<>>
              hasT == ev.teachers # <<>>
              hasG == ev.groups # <<>>
          IN /\ Unescape(body[k].summary) = ev.summary
             /\ Len(lines) = Flag(hasD) + Flag(hasT) + Flag(hasG)
             /\ hasD => lines[1] = ev.description
             /\ hasT => lines[Flag(hasD) + 1]
                            = <<"Enseignant(s): ">> \o Join(ev.teachers, " / ")
             /\ (hasG /\ Len(ev.groups) = 1) =>
                    lines[Len(lines)] = <<"Groupe: ">> \o ev.groups[1]
             /\ (hasG /\ Len(ev.groups) >= 2) =>
                    /\ Head(lines[Len(lines)]) = "Groupes: "
                    /\ Tail(lines[Len(lines)]) = Join(ev.groups, " et ")

C8_Witness ==
    /\ pc = "ics_done"
    /\ Len(body) = 2
    /\ Len(ics_in[1].groups) = 1 /\ Len(ics_in[2].groups) >= 2
    /\ ics_in[1].teachers # <<>> /\ ics_in[2].description # <<>>
    /\ Len(LinesOf(2)) = 2

\* C9: a candidate of a primary sub-column carries the label of the next
\* column besides its own only if one merged range covers both its title
\* cell and the next one.
C9_SingleRange ==
    \A i \in Cands :
        (/\ origin[i].col = origin[i].anchor
         /\ LabelAt(i, origin[i].col + 1) # LabelAt(i, origin[i].col)
         /\ LabelAt(i, origin[i].col + 1) \in raw_events[i].groups)
        => \E rg \in ranges :
               /\ Covers(rg, origin[i].row, origin[i].col)
               /\ Covers(rg, origin[i].row, origin[i].col + 1)

\* C10: no title cell yields two candidates with different dates.
C10_OneDayPerCell ==
    \A i, j \in Cands :
        (origin[i].row = origin[j].row /\ origin[i].col = origin[j].col)
        => raw_events[i].start \div 1440 = raw_events[j].start \div 1440

====
